---- MODULE Spec2Model ----
(***************************************************************************)
(* Department selector plugin (src/dep.py): the admin commands that edit   *)
(* the stored department list, the direct-message listener that sends the  *)
(* dropdown, and the dropdown callback that opens the thread.              *)
(*                                                                         *)
(* Every handler is a coroutine.  A handler in flight is a record in       *)
(* `tasks`; one action is the code between two suspension points: the      *)
(* awaited call takes effect and the synchronous code after it runs up to  *)
(* the next await.  Spec runs one handler at a time, SpecConc lets         *)
(* MaxConc handlers interleave at their awaits.                            *)
(***************************************************************************)
EXTENDS Integers, Sequences, FiniteSets, TLC

VARIABLES store, loaded, tasks, done, views, threads, requests, channels, nEvents

vars == <<store, loaded, tasks, done, views, threads, requests, channels, nEvents>>

----------------------------------------------------------------------------
(* Bounds *)

MaxEvents == 4      \* handler invocations in one behaviour
MaxDepts == 5       \* `department add` is not issued on a longer list
MaxViews == 2       \* dropdown prompts sent in one behaviour
MaxConc == 2        \* handlers in flight at once under SpecConc
MaxConcEvents == 3  \* handler invocations in one behaviour of SpecConc
MaxUserEvents == 5  \* handler invocations in one behaviour of SpecUser(Conc)

----------------------------------------------------------------------------
(* Values *)

None == -1                      \* Python None (never a channel id)
MainCategory == 40              \* bot.main_category
CategoryIds == {41, 42}         \* category channels an admin can name
Users == {1, 2}                 \* user ids

CmdNames == {"billing", "Report", "Sales"}
DefaultNames == <<"General Support", "Technical Support", "Billing", "Report">>

\* str.lower() on the names in use
Lower(s) ==
    CASE s = "General Support" -> "general support"
      [] s = "Technical Support" -> "technical support"
      [] s = "Billing" -> "billing"
      [] s = "billing" -> "billing"
      [] s = "Report" -> "report"
      [] s = "Sales" -> "sales"

\* truth value of an optional id: None and 0 are falsy
Truthy(x) == x # None /\ x # 0

Dept(n, c) == [name |-> n, category_id |-> c]

\* the list literal of cog_load
DefaultDepartmentsSwapped ==
    <<Dept("General Support", None), Dept("Technical Support", None),
      Dept("Report", None), Dept("Billing", None)>>

DefaultDepartments ==
    <<Dept("General Support", None), Dept("Technical Support", None),
      Dept("Billing", None), Dept("Report", None)>>

----------------------------------------------------------------------------
(* The document store: the one record {_id: "config", departments: [...]} *)

NoRecord == [present |-> FALSE, hasDepartments |-> FALSE, departments |-> <<>>]
BareRecord == [present |-> TRUE, hasDepartments |-> FALSE, departments |-> <<>>]
Record(ds) == [present |-> TRUE, hasDepartments |-> TRUE, departments |-> ds]

\* find_one({"_id": "config"}): the record, or None
find_one(st) == st

FindOneAndUpdateDropEmpty(st, ds) ==
    IF ds = <<>> THEN NoRecord ELSE Record(ds)

FindOneAndUpdatePush(st, ds) ==
    IF ds = <<>> THEN Record(<<>>)
    ELSE Record(st.departments \o <<ds[Len(ds)]>>)

\* find_one_and_update(..., {"$set": {"departments": ds}}, upsert=True)
find_one_and_update(st, ds) == Record(ds)

NotConfigOrEmpty(config) == ~config.present \/ config.departments = <<>>

NotConfigAlways(config) == TRUE

\* `not config`: None and the empty dict are falsy; a record has its _id
NotConfig(config) == ~config.present

\* config.get("departments", [])
GetDepartments(config) ==
    IF config.hasDepartments THEN config.departments ELSE <<>>

\* guild.get_channel / bot.get_channel: the channel, or None
get_channel(chs, id) == IF id \in chs THEN id ELSE None

ChannelName(id) == <<"channel", id>>

----------------------------------------------------------------------------
(* Handlers in flight *)

Idle == [kind |-> "none", pc |-> "done", name |-> "", category |-> None,
         author |-> 0, config |-> NoRecord, departments |-> <<>>,
         guild |-> FALSE, bot |-> FALSE, hasThread |-> FALSE,
         view |-> 0, index |-> 0, thread |-> "", raised |-> FALSE,
         out |-> <<>>]

NewTask(k) == [Idle EXCEPT !.kind = k]

\* a handler may start: the cog is loaded and the scheduler has room
\* (limit = <<handlers in flight, handler invocations>>)
CanStart(limit) ==
    /\ loaded
    /\ Len(tasks) < limit[1]
    /\ nEvents < limit[2]

Drop(seq, i) == SubSeq(seq, 1, i - 1) \o SubSeq(seq, i + 1, Len(seq))

\* the handler returns (or raises): it leaves the scheduler
Finish(i, t) ==
    /\ tasks' = Drop(tasks, i)
    /\ done' = [t EXCEPT !.pc = "done"]

Suspend(i, t) ==
    /\ tasks' = [tasks EXCEPT ![i] = t]
    /\ UNCHANGED done

Spawn(t) ==
    /\ tasks' = Append(tasks, t)
    /\ nEvents' = nEvents + 1
    /\ UNCHANGED done

Send(to, text) == [op |-> "send", to |-> to, text |-> text, ephemeral |-> FALSE]
Ephemeral(to, text) == [op |-> "send", to |-> to, text |-> text, ephemeral |-> TRUE]
Write(ds) == [op |-> "write", departments |-> ds]

----------------------------------------------------------------------------
(* cog_load *)

cog_load(limit) ==
    /\ Len(tasks) < limit[1]
    /\ nEvents < limit[2]
    /\ \A i \in DOMAIN tasks : tasks[i].kind # "load"
    /\ LET config == find_one(store)
           t == [NewTask("load") EXCEPT !.config = config]
       IN  IF NotConfig(config)
           THEN /\ tasks' = Append(tasks, [t EXCEPT !.pc = "update"])
                /\ UNCHANGED <<done, loaded>>
           ELSE /\ done' = t
                /\ loaded' = TRUE
                /\ UNCHANGED tasks
    /\ nEvents' = nEvents + 1
    /\ UNCHANGED <<store, views, threads, requests, channels>>

LoadUpdate(i) ==
    /\ tasks[i].kind = "load" /\ tasks[i].pc = "update"
    /\ store' = find_one_and_update(store, DefaultDepartments)
    /\ Finish(i, [tasks[i] EXCEPT !.out = Append(@, Write(DefaultDepartments))])
    /\ loaded' = TRUE
    /\ UNCHANGED <<views, threads, requests, channels, nEvents>>

----------------------------------------------------------------------------
(* department add *)

AppendDeptUnique(departments, name) ==
    IF \E k \in DOMAIN departments : departments[k].name = name
    THEN departments
    ELSE Append(departments, Dept(name, None))

AppendDept(departments, name) == Append(departments, Dept(name, None))

dept_add(limit, name) ==
    /\ CanStart(limit)
    /\ Len(store.departments) < MaxDepts
    /\ LET config == find_one(store)
           t == [NewTask("add") EXCEPT !.name = name, !.config = config]
       IN  IF ~config.present
           THEN \* None.get: AttributeError
                /\ done' = [t EXCEPT !.raised = TRUE]
                /\ nEvents' = nEvents + 1
                /\ UNCHANGED tasks
           ELSE Spawn([t EXCEPT !.pc = "update",
                         !.departments = AppendDept(GetDepartments(config), name)])
    /\ UNCHANGED <<store, loaded, views, threads, requests, channels>>

AddUpdate(i) ==
    /\ tasks[i].kind = "add" /\ tasks[i].pc = "update"
    /\ store' = find_one_and_update(store, tasks[i].departments)
    /\ Suspend(i, [tasks[i] EXCEPT !.pc = "send",
                     !.out = Append(@, Write(tasks[i].departments))])
    /\ UNCHANGED <<loaded, views, threads, requests, channels, nEvents>>

AddSend(i) ==
    /\ tasks[i].kind = "add" /\ tasks[i].pc = "send"
    /\ Finish(i, [tasks[i] EXCEPT
                    !.out = Append(@, Send("ctx", <<"Added department: ", tasks[i].name>>))])
    /\ UNCHANGED <<store, loaded, views, threads, requests, channels, nEvents>>

----------------------------------------------------------------------------
(* department remove *)

\* name comparison of the commands: d["name"].lower() == name.lower()
SameNameExact(a, b) == a = b

SameName(a, b) == Lower(a) = Lower(b)

RECURSIVE FirstMatchFrom(_, _, _)
FirstMatchFrom(departments, name, k) ==
    IF k > Len(departments) THEN 0
    ELSE IF SameName(departments[k].name, name) THEN k
    ELSE FirstMatchFrom(departments, name, k + 1)

\* index of the entry the for loop breaks on, 0 when the loop runs out
FirstMatch(departments, name) == FirstMatchFrom(departments, name, 1)

RemoveFirstMatching(departments, name) ==
    LET k == FirstMatch(departments, name)
    IN  IF k = 0 THEN departments
        ELSE SubSeq(departments, 1, k - 1) \o SubSeq(departments, k + 1, Len(departments))

\* [d for d in departments if d["name"].lower() != name.lower()]
RemoveMatching(departments, name) ==
    LET Keep(d) == ~SameName(d.name, name)
    IN  SelectSeq(departments, Keep)

dept_remove(limit, name) ==
    /\ CanStart(limit)
    /\ LET config == find_one(store)
           t == [NewTask("remove") EXCEPT !.name = name, !.config = config]
       IN  IF ~config.present
           THEN /\ done' = [t EXCEPT !.raised = TRUE]
                /\ nEvents' = nEvents + 1
                /\ UNCHANGED tasks
           ELSE Spawn([t EXCEPT !.pc = "update",
                         !.departments = RemoveMatching(GetDepartments(config), name)])
    /\ UNCHANGED <<store, loaded, views, threads, requests, channels>>

RemoveUpdate(i) ==
    /\ tasks[i].kind = "remove" /\ tasks[i].pc = "update"
    /\ store' = find_one_and_update(store, tasks[i].departments)
    /\ Suspend(i, [tasks[i] EXCEPT !.pc = "send",
                     !.out = Append(@, Write(tasks[i].departments))])
    /\ UNCHANGED <<loaded, views, threads, requests, channels, nEvents>>

RemoveSend(i) ==
    /\ tasks[i].kind = "remove" /\ tasks[i].pc = "send"
    /\ Finish(i, [tasks[i] EXCEPT
                    !.out = Append(@, Send("ctx", <<"Removed department: ", tasks[i].name>>))])
    /\ UNCHANGED <<store, loaded, views, threads, requests, channels, nEvents>>

----------------------------------------------------------------------------
(* department list *)

CategoryTextNoDeleted(dept, chs) ==
    IF ~Truthy(dept.category_id) THEN <<"Not set">>
    ELSE ChannelName(dept.category_id)

\* the text after "Category: " in one embed field
CategoryText(dept, chs) ==
    IF ~Truthy(dept.category_id) THEN <<"Not set">>
    ELSE IF get_channel(chs, dept.category_id) = None THEN <<"Deleted">>
    ELSE ChannelName(dept.category_id)

\* the embed fields, one add_field per department
ListFields(departments, chs) ==
    [k \in DOMAIN departments |->
        [name |-> departments[k].name,
         value |-> <<"Category: ">> \o CategoryText(departments[k], chs)]]

Embed(title, fields) == [op |-> "embed", to |-> "ctx", title |-> title, fields |-> fields]

dept_list(limit) ==
    /\ CanStart(limit)
    /\ LET config == find_one(store)
           t == [NewTask("list") EXCEPT !.config = config]
       IN  IF ~config.present
           THEN /\ done' = [t EXCEPT !.raised = TRUE]
                /\ nEvents' = nEvents + 1
                /\ UNCHANGED tasks
           ELSE LET departments == GetDepartments(config)
                IN  IF departments = <<>>
                    THEN Spawn([t EXCEPT !.pc = "send_none"])
                    ELSE Spawn([t EXCEPT !.pc = "send_embed",
                                  !.departments = ListFields(departments, channels)])
    /\ UNCHANGED <<store, loaded, views, threads, requests, channels>>

ListSend(i) ==
    /\ tasks[i].kind = "list"
    /\ \/ /\ tasks[i].pc = "send_none"
          /\ Finish(i, [tasks[i] EXCEPT
                          !.out = Append(@, Send("ctx", <<"No departments configured.">>))])
       \/ /\ tasks[i].pc = "send_embed"
          /\ Finish(i, [tasks[i] EXCEPT
                          !.out = Append(@, Embed("Ticket Departments", tasks[i].departments))])
    /\ UNCHANGED <<store, loaded, views, threads, requests, channels, nEvents>>

----------------------------------------------------------------------------
(* department category *)

SetCategoryAll(departments, name, id) ==
    [k \in DOMAIN departments |->
        IF SameName(departments[k].name, name)
        THEN [departments[k] EXCEPT !.category_id = id]
        ELSE departments[k]]

\* the for loop up to its break: the first match gets the id
SetCategory(departments, name, id) ==
    LET k == FirstMatch(departments, name)
    IN  IF k = 0 THEN departments
        ELSE [departments EXCEPT ![k].category_id = id]

FoundNever(departments, name) == TRUE

\* the loop reached its break (the for-else branch is not taken)
Found(departments, name) == FirstMatch(departments, name) # 0

dept_category(limit, name, category) ==
    /\ CanStart(limit)
    /\ category \in channels     \* the converter resolves a live category
    /\ LET config == find_one(store)
           t == [NewTask("category") EXCEPT !.name = name, !.category = category,
                                            !.config = config]
       IN  IF ~config.present
           THEN /\ done' = [t EXCEPT !.raised = TRUE]
                /\ nEvents' = nEvents + 1
                /\ UNCHANGED tasks
           ELSE LET departments == GetDepartments(config)
                IN  IF Found(departments, name)
                    THEN Spawn([t EXCEPT !.pc = "update",
                                  !.departments = SetCategory(departments, name, category)])
                    ELSE Spawn([t EXCEPT !.pc = "not_found",
                                  !.departments = departments])
    /\ UNCHANGED <<store, loaded, views, threads, requests, channels>>

CategoryNotFound(i) ==
    /\ tasks[i].kind = "category" /\ tasks[i].pc = "not_found"
    /\ Finish(i, [tasks[i] EXCEPT
                    !.out = Append(@, Send("ctx", <<"Department '", tasks[i].name, "' not found.">>))])
    /\ UNCHANGED <<store, loaded, views, threads, requests, channels, nEvents>>

CategoryUpdate(i) ==
    /\ tasks[i].kind = "category" /\ tasks[i].pc = "update"
    /\ store' = find_one_and_update(store, tasks[i].departments)
    /\ Suspend(i, [tasks[i] EXCEPT !.pc = "send",
                     !.out = Append(@, Write(tasks[i].departments))])
    /\ UNCHANGED <<loaded, views, threads, requests, channels, nEvents>>

CategorySend(i) ==
    /\ tasks[i].kind = "category" /\ tasks[i].pc = "send"
    /\ Finish(i, [tasks[i] EXCEPT
                    !.out = Append(@, Send("ctx", <<"Set category for ", tasks[i].name, " to ">>
                                                  \o ChannelName(tasks[i].category)))])
    /\ UNCHANGED <<store, loaded, views, threads, requests, channels, nEvents>>

----------------------------------------------------------------------------
(* on_message: the direct-message listener *)

\* DepartmentSelect.__init__: one option per department, value = str(i)
Options(departments) ==
    [k \in DOMAIN departments |-> [label |-> departments[k].name, value |-> k - 1]]

\* DepartmentView(bot, departments, user) with its one DepartmentSelect
DepartmentView(departments, user) ==
    [user |-> user, departments |-> departments,
     options |-> Options(departments), state |-> "armed"]

Prompt(to, view) ==
    [op |-> "prompt", to |-> to, title |-> "Select a Department",
     options |-> view.options]

\* `if message.guild or message.author.bot: return`
Ignored(guild, bot) == guild \/ bot

\* bot.threads.find(recipient=author): the open thread, or None
FindThreadNever(ths, author) == FALSE

FindThread(ths, author) == author \in ths

Prompting == {i \in DOMAIN tasks : tasks[i].kind = "message"}

on_message(limit, author, guild, bot) ==
    /\ CanStart(limit)
    /\ Len(views) + Cardinality(Prompting) < MaxViews
    /\ LET t == [NewTask("message") EXCEPT !.author = author, !.guild = guild,
                                           !.bot = bot]
       IN  IF Ignored(guild, bot)
           THEN /\ done' = t
                /\ nEvents' = nEvents + 1
                /\ UNCHANGED tasks
           ELSE IF FindThread(threads, author)
           THEN /\ done' = [t EXCEPT !.hasThread = TRUE]
                /\ nEvents' = nEvents + 1
                /\ UNCHANGED tasks
           ELSE Spawn([t EXCEPT !.pc = "find_one"])
    /\ UNCHANGED <<store, loaded, views, threads, requests, channels>>

MessageFindOne(i) ==
    /\ tasks[i].kind = "message" /\ tasks[i].pc = "find_one"
    /\ LET config == find_one(store)
           t == [tasks[i] EXCEPT !.config = config]
       IN  IF ~config.present
           THEN Finish(i, [t EXCEPT !.raised = TRUE])
           ELSE LET departments == GetDepartments(config)
                IN  IF departments = <<>>
                    THEN Finish(i, t)
                    ELSE Suspend(i, [t EXCEPT !.pc = "send",
                                       !.departments = departments])
    /\ UNCHANGED <<store, loaded, views, threads, requests, channels, nEvents>>

MessageSend(i) ==
    /\ tasks[i].kind = "message" /\ tasks[i].pc = "send"
    /\ LET view == DepartmentView(tasks[i].departments, tasks[i].author)
       IN  /\ views' = Append(views, view)
           /\ Finish(i, [tasks[i] EXCEPT !.view = Len(views) + 1,
                           !.out = Append(@, Prompt(tasks[i].author, view))])
    /\ UNCHANGED <<store, loaded, threads, requests, channels, nEvents>>

----------------------------------------------------------------------------
(* DepartmentSelect.callback *)

Create(recipient, creator, category) ==
    [op |-> "create", recipient |-> recipient, creator |-> creator,
     category |-> category]
Edit(user, topic) == [op |-> "edit", channel |-> user, topic |-> topic]
Stop(v) == [op |-> "stop", view |-> v]

Topic(name, user) == <<"Department: ", name, " | User ID: ", user>>

InvitedAnyone(view, user) == TRUE

\* `interaction.user.id != self.user.id` is false
Invited(view, user) == user = view.user

TargetCategoryMain(dept, chs) == MainCategory

\* bot.main_category if not category_id else bot.get_channel(category_id)
TargetCategory(dept, chs) ==
    IF ~Truthy(dept.category_id) THEN MainCategory
    ELSE get_channel(chs, dept.category_id)

\* what bot.threads.create can hand back
CreateResults == {"none", "no_channel", "channel"}

HasChannelAlways(thread) == TRUE

\* `if thread and thread.channel`
HasChannel(thread) == thread = "channel"

SelectedDeptStored(view, st, value) ==
    IF value + 1 \in DOMAIN st.departments
    THEN st.departments[value + 1]
    ELSE view.departments[value + 1]

\* self.departments[int(self.values[0])]: the list the select was built with
SelectedDept(view, st, value) == view.departments[value + 1]

callback(limit, v, user, value) ==
    /\ CanStart(limit)
    /\ v \in DOMAIN views
    /\ views[v].state = "armed"
    /\ \E k \in DOMAIN views[v].options : views[v].options[k].value = value
    /\ LET t == [NewTask("callback") EXCEPT !.author = user, !.view = v]
       IN  IF ~Invited(views[v], user)
           THEN Spawn([t EXCEPT !.pc = "deny"])
           ELSE LET selected_dept == SelectedDept(views[v], store, value)
                IN  Spawn([t EXCEPT !.pc = "create", !.index = value,
                             !.name = selected_dept.name,
                             !.category = TargetCategory(selected_dept, channels)])
    /\ UNCHANGED <<store, loaded, views, threads, requests, channels>>

CallbackDeny(i) ==
    /\ tasks[i].kind = "callback" /\ tasks[i].pc = "deny"
    /\ Finish(i, [tasks[i] EXCEPT
                    !.out = Append(@, Ephemeral(tasks[i].author, <<"This menu is not for you.">>))])
    /\ UNCHANGED <<store, loaded, views, threads, requests, channels, nEvents>>

CallbackCreate(i, thread) ==
    /\ tasks[i].kind = "callback" /\ tasks[i].pc = "create"
    /\ LET user == views[tasks[i].view].user
       IN  /\ threads' = IF thread = "none" THEN threads ELSE threads \cup {user}
           /\ requests' = Append(requests, [view |-> tasks[i].view, recipient |-> user])
           /\ Suspend(i, [tasks[i] EXCEPT
                            !.pc = IF HasChannel(thread) THEN "edit" ELSE "respond",
                            !.thread = thread,
                            !.out = Append(@, Create(user, user, tasks[i].category))])
    /\ UNCHANGED <<store, loaded, views, channels, nEvents>>

CallbackEdit(i) ==
    /\ tasks[i].kind = "callback" /\ tasks[i].pc = "edit"
    /\ LET user == views[tasks[i].view].user
       IN  Suspend(i, [tasks[i] EXCEPT !.pc = "respond",
                         !.out = Append(@, Edit(user, Topic(tasks[i].name, user)))])
    /\ UNCHANGED <<store, loaded, views, threads, requests, channels, nEvents>>

CallbackRespond(i) ==
    /\ tasks[i].kind = "callback" /\ tasks[i].pc = "respond"
    /\ views' = [views EXCEPT ![tasks[i].view].state = "stopped"]
    /\ Finish(i, [tasks[i] EXCEPT
                    !.out = @ \o <<Ephemeral(tasks[i].author,
                                     <<"Ticket created in ", tasks[i].name,
                                       " department. A staff member will be with you shortly.">>),
                                   Stop(tasks[i].view)>>])
    /\ UNCHANGED <<store, loaded, threads, requests, channels, nEvents>>

----------------------------------------------------------------------------
(* The host: a category channel is deleted, a dropdown times out *)

ChannelDelete(c) ==
    /\ c \in channels
    /\ channels' = channels \ {c}
    /\ UNCHANGED <<store, loaded, tasks, done, views, threads, requests, nEvents>>

\* View(timeout=300): the view finishes and takes no more interactions
ViewTimeout(v) ==
    /\ v \in DOMAIN views
    /\ views[v].state = "armed"
    /\ views' = [views EXCEPT ![v].state = "timeout"]
    /\ UNCHANGED <<store, loaded, tasks, done, threads, requests, channels, nEvents>>

----------------------------------------------------------------------------

Init ==
    /\ store \in {NoRecord, BareRecord}
    /\ loaded = FALSE
    /\ tasks = <<>>
    /\ done = Idle
    /\ views = <<>>
    /\ threads \in {{}, {2}}
    /\ requests = <<>>
    /\ channels = CategoryIds
    /\ nEvents = 0

Step(i) ==
    \/ LoadUpdate(i)
    \/ AddUpdate(i)
    \/ AddSend(i)
    \/ RemoveUpdate(i)
    \/ RemoveSend(i)
    \/ ListSend(i)
    \/ CategoryNotFound(i)
    \/ CategoryUpdate(i)
    \/ CategorySend(i)
    \/ MessageFindOne(i)
    \/ MessageSend(i)
    \/ CallbackDeny(i)
    \/ \E thread \in CreateResults : CallbackCreate(i, thread)
    \/ CallbackEdit(i)
    \/ CallbackRespond(i)

Handler(limit) ==
    \/ cog_load(limit)
    \/ \E n \in CmdNames : dept_add(limit, n)
    \/ \E n \in CmdNames : dept_remove(limit, n)
    \/ dept_list(limit)
    \/ \E n \in CmdNames, c \in CategoryIds : dept_category(limit, n, c)
    \/ \E u \in Users, g \in BOOLEAN, b \in BOOLEAN : on_message(limit, u, g, b)
    \/ \E v \in 1..MaxViews, u \in Users, k \in 0..(MaxDepts - 1) : callback(limit, v, u, k)

Host ==
    \/ \E c \in CategoryIds : ChannelDelete(c)
    \/ \E v \in 1..MaxViews : ViewTimeout(v)

Next ==
    \/ Handler(<<1, MaxEvents>>)
    \/ \E i \in DOMAIN tasks : Step(i)
    \/ Host

Spec == Init /\ [][Next]_vars

NextConc ==
    \/ Handler(<<MaxConc, MaxConcEvents>>)
    \/ \E i \in DOMAIN tasks : Step(i)
    \/ Host

SpecConc == Init /\ [][NextConc]_vars

(* The ticket side alone: the load, direct messages and selections.  One   *)
(* user needs two messages and two selections after the load.              *)

UserHandler(limit) ==
    \/ cog_load(limit)
    \/ \E u \in Users, g \in BOOLEAN, b \in BOOLEAN : on_message(limit, u, g, b)
    \/ \E v \in 1..MaxViews, u \in Users, k \in 0..(MaxDepts - 1) : callback(limit, v, u, k)

UserStep(i) ==
    \/ LoadUpdate(i)
    \/ MessageFindOne(i)
    \/ MessageSend(i)
    \/ CallbackDeny(i)
    \/ \E thread \in CreateResults : CallbackCreate(i, thread)
    \/ CallbackEdit(i)
    \/ CallbackRespond(i)

NextUser ==
    \/ UserHandler(<<1, MaxUserEvents>>)
    \/ \E i \in DOMAIN tasks : UserStep(i)
    \/ \E v \in 1..MaxViews : ViewTimeout(v)

SpecUser == Init /\ [][NextUser]_vars

NextUserConc ==
    \/ UserHandler(<<MaxConc, MaxUserEvents>>)
    \/ \E i \in DOMAIN tasks : UserStep(i)
    \/ \E v \in 1..MaxViews : ViewTimeout(v)

SpecUserConc == Init /\ [][NextUserConc]_vars

(* The store is the host's: its collection can be emptied under the        *)
(* running plugin, and the handlers then find no record.                   *)

RecordLost ==
    /\ loaded
    /\ tasks = <<>>
    /\ store.present
    /\ store' = NoRecord
    /\ UNCHANGED <<loaded, tasks, done, views, threads, requests, channels, nEvents>>

NextLost ==
    \/ Next
    \/ RecordLost

SpecLost == Init /\ [][NextLost]_vars

----------------------------------------------------------------------------
(* Properties.  Under Spec a handler runs alone, so when `tasks` is empty  *)
(* `done` is the handler that just returned, done.config is the record it  *)
(* found in the store when it was invoked, and done.out is what it did.    *)

Completed(kind) == tasks = <<>> /\ done.kind = kind /\ ~done.raised

\* the department sequence the completed handler found in the store
Before == done.config.departments

Matches(d, name) == Lower(d.name) = Lower(name)

MatchCount(S, name) == Cardinality({k \in DOMAIN S : Matches(S[k], name)})

\* C1: cog_load on a store without a config record leaves the record
\* {departments: [General Support, Technical Support, Billing, Report]},
\* each with category_id null, and nothing else.
C1_LoadOnEmptyStore ==
    (Completed("load") /\ ~done.config.present) =>
        store = [present |-> TRUE, hasDepartments |-> TRUE,
                 departments |-> [k \in 1..4 |->
                                    [name |-> DefaultNames[k], category_id |-> None]]]

C1_Witness ==
    /\ Completed("load")
    /\ ~done.config.present
    /\ Len(store.departments) = 4

\* C2: a completed `department add X`, run alone, leaves the stored
\* sequence equal to the one it found followed by one entry {X, null};
\* the length grows by one also when an entry named X was already there.
C2_AddAppends ==
    Completed("add") =>
        /\ Len(store.departments) = Len(Before) + 1
        /\ \A k \in DOMAIN Before : store.departments[k] = Before[k]
        /\ store.departments[Len(Before) + 1] =
               [name |-> done.name, category_id |-> None]

C2_Witness ==
    /\ Completed("add")
    /\ \E k \in DOMAIN Before : Before[k].name = done.name
    /\ Cardinality({k \in DOMAIN store.departments :
                       store.departments[k].name = done.name}) >= 2

RECURSIVE Without(_, _)
Without(S, name) ==
    IF S = <<>> THEN <<>>
    ELSE (IF Matches(Head(S), name) THEN <<>> ELSE <<Head(S)>>)
         \o Without(Tail(S), name)

\* C3: a completed `department remove X` leaves the stored sequence equal
\* to the one it found without the entries named X case-insensitively,
\* the others unchanged and in order; with no match the sequence is
\* unchanged; the reply is 'Removed department: X' in both cases.
C3_RemoveFilters ==
    Completed("remove") =>
        /\ store.departments = Without(Before, done.name)
        /\ (MatchCount(Before, done.name) = 0 => store.departments = Before)
        /\ done.out[Len(done.out)] =
               [op |-> "send", to |-> "ctx", ephemeral |-> FALSE,
                text |-> <<"Removed department: ", done.name>>]

C3_Witness ==
    /\ Completed("remove")
    /\ \E k \in DOMAIN Before :
          Matches(Before[k], done.name) /\ Before[k].name # done.name
    /\ Len(store.departments) < Len(Before)

\* the sequence S without its first entry named `name`
WithoutFirst(S, name) ==
    LET first == {k \in DOMAIN S :
                     /\ Matches(S[k], name)
                     /\ \A j \in 1..(k - 1) : ~Matches(S[j], name)}
    IN  [k \in 1..(Len(S) - Cardinality(first)) |->
            IF \E f \in first : k >= f THEN S[k + 1] ELSE S[k]]

\* C4 as stated: with several entries named X, `department remove X`
\* deletes the first of them only and the later ones stay stored.
C4_RemoveFirstOnly ==
    (Completed("remove") /\ MatchCount(Before, done.name) >= 2) =>
        /\ store.departments = WithoutFirst(Before, done.name)
        /\ MatchCount(store.departments, done.name) >= 1

\* C4 (amended): with several entries named X, `department remove X`
\* deletes every one of them: no entry named X case-insensitively is left,
\* and only those entries are gone.
C4_RemoveEveryMatch ==
    (Completed("remove") /\ MatchCount(Before, done.name) >= 2) =>
        /\ MatchCount(store.departments, done.name) = 0
        /\ Len(store.departments) = Len(Before) - MatchCount(Before, done.name)

C4_Witness ==
    /\ Completed("remove")
    /\ MatchCount(Before, done.name) >= 2
    /\ Len(store.departments) = Len(Before) - 2

IsFirstMatch(S, name, k) ==
    /\ Matches(S[k], name)
    /\ \A j \in 1..(k - 1) : ~Matches(S[j], name)

\* C5: when some entry is named N case-insensitively, a completed
\* `department category N C` sets category_id to C on the first such entry
\* only; every other entry keeps its category_id, and the names, the order
\* and the length are unchanged.
C5_CategoryFirstMatchOnly ==
    (Completed("category") /\ MatchCount(Before, done.name) >= 1) =>
        /\ Len(store.departments) = Len(Before)
        /\ \A k \in DOMAIN Before :
              /\ store.departments[k].name = Before[k].name
              /\ store.departments[k].category_id =
                    IF IsFirstMatch(Before, done.name, k)
                    THEN done.category
                    ELSE Before[k].category_id

C5_Witness ==
    /\ Completed("category")
    /\ MatchCount(Before, done.name) >= 2
    /\ \E k \in DOMAIN store.departments :
          /\ Matches(store.departments[k], done.name)
          /\ store.departments[k].category_id # done.category

\* C6: when no stored entry is named N case-insensitively, `department
\* category N C` replies with the not-found message and nothing else: no
\* write is issued, the stored record is as it was found, and the success
\* confirmation is not sent.
C6_CategoryNotFound ==
    (Completed("category") /\ MatchCount(Before, done.name) = 0) =>
        /\ done.out = <<[op |-> "send", to |-> "ctx", ephemeral |-> FALSE,
                         text |-> <<"Department '", done.name, "' not found.">>]>>
        /\ store = done.config

C6_Witness ==
    /\ Completed("category")
    /\ MatchCount(Before, done.name) = 0
    /\ Len(done.out) = 1
    /\ Before # <<>>

PromptsIn(out) == {k \in DOMAIN out : out[k].op = "prompt"}

\* C7: on_message sends no prompt when the sender has an open thread;
\* exactly one prompt, to the sender, for a direct message of a non-bot
\* sender without a thread when the stored list is non-empty; and nothing
\* at all when the list is empty or the message is from a guild or a bot.
C7_PromptExactlyWhenDue ==
    Completed("message") =>
        /\ (done.author \in threads => PromptsIn(done.out) = {})
        /\ (/\ ~done.guild /\ ~done.bot
            /\ done.author \notin threads
            /\ store.departments # <<>>)
           => /\ Len(done.out) = 1
              /\ done.out[1].op = "prompt"
              /\ done.out[1].to = done.author
        /\ (store.departments = <<>> \/ done.guild \/ done.bot) => done.out = <<>>

C7_Witness ==
    /\ Completed("message")
    /\ ~done.guild /\ ~done.bot
    /\ done.author \notin threads
    /\ store.departments # <<>>
    /\ PromptsIn(done.out) # {}
    /\ 2 \in threads

\* the selection of the invited user has run to its end
ValidSelection ==
    /\ done.kind = "callback"
    /\ done.author = views[done.view].user

\* the department the completed selection picked in the dropdown's list
Selected == views[done.view].departments[done.index + 1]

\* C8: a valid selection requests the thread with recipient = creator =
\* the invited user; the category is bot.main_category when the selected
\* department's category_id is null, and the channel with that id when it
\* is set (nothing else than that channel: None once it is deleted).
C8_CreateArguments ==
    ValidSelection =>
        /\ done.out[1].op = "create"
        /\ done.out[1].recipient = done.author
        /\ done.out[1].creator = done.author
        /\ (Selected.category_id = None => done.out[1].category = MainCategory)
        /\ (Selected.category_id # None =>
               /\ done.out[1].category \in {Selected.category_id, None}
               /\ (Selected.category_id \in channels =>
                      done.out[1].category = Selected.category_id))

C8_Witness ==
    /\ ValidSelection
    /\ Selected.category_id # None
    /\ done.out[1].op = "create"
    /\ done.out[1].category = Selected.category_id

Ops(out) == [k \in DOMAIN out |-> out[k].op]

\* C9: a valid selection does, in this order: thread creation, the topic
\* edit, the ephemeral confirmation, view.stop().  The topic edit, to
\* 'Department: <name> | User ID: <id>', is made iff the creation returned
\* a thread with a channel; the confirmation and the stop follow either way.
C9_CallbackOrder ==
    ValidSelection =>
        /\ Ops(done.out) = IF done.thread = "channel"
                           THEN <<"create", "edit", "send", "stop">>
                           ELSE <<"create", "send", "stop">>
        /\ (done.thread = "channel" =>
               done.out[2].topic = <<"Department: ", Selected.name,
                                     " | User ID: ", done.author>>)
        /\ LET reply == done.out[Len(done.out) - 1]
           IN  reply.to = done.author /\ reply.ephemeral
        /\ done.out[Len(done.out)].view = done.view
        /\ views[done.view].state = "stopped"

C9_Witness ==
    /\ ValidSelection
    /\ done.thread = "channel"
    /\ Len(done.out) = 4
    /\ views[done.view].state = "stopped"

\* a selection by somebody else than the invited user has run to its end
Denied ==
    /\ tasks = <<>>
    /\ done.kind = "callback"
    /\ done.author # views[done.view].user

\* C10: a selection by a user other than the invited one gets the
\* ephemeral denial and nothing else: no thread is requested, no topic is
\* edited, the store is not written and the view is not stopped; while the
\* dropdown has not timed out, a selection by the invited user can start.
C10_WrongUserDenied ==
    Denied =>
        /\ done.out = <<[op |-> "send", to |-> done.author, ephemeral |-> TRUE,
                         text |-> <<"This menu is not for you.">>]>>
        /\ views[done.view].state # "stopped"
        /\ (views[done.view].state = "armed" /\ nEvents < MaxEvents) =>
               ENABLED callback(<<1, MaxEvents>>, done.view, views[done.view].user, 0)

C10_Witness ==
    /\ Denied
    /\ Len(done.out) = 1
    /\ views[done.view].state = "armed"
    /\ nEvents < MaxEvents

\* the selections of the invited user, in flight or just returned
Selections ==
    {tasks[i] : i \in {j \in DOMAIN tasks :
                         tasks[j].kind = "callback" /\ tasks[j].pc # "deny"}}
    \cup (IF ValidSelection THEN {done} ELSE {})

\* C11: the dropdown has one option per department of the list read when
\* the prompt was built, in list order with value = index; whatever admin
\* commands ran in between, a selection's index is in range of that list
\* and the name and category_id used for the thread are that list's values
\* at the index, not the store's.
C11_SelectionUsesSnapshot ==
    /\ \A v \in DOMAIN views :
          /\ DOMAIN views[v].options = DOMAIN views[v].departments
          /\ \A k \in DOMAIN views[v].options :
                /\ views[v].options[k].label = views[v].departments[k].name
                /\ views[v].options[k].value = k - 1
    /\ (Completed("message") /\ done.view # 0) =>
          views[done.view].departments = done.config.departments
    /\ \A t \in Selections :
          LET snapshot == views[t.view].departments
          IN  /\ t.index + 1 \in DOMAIN snapshot
              /\ t.name = snapshot[t.index + 1].name
              /\ (snapshot[t.index + 1].category_id = None =>
                     t.category = MainCategory)
              /\ (snapshot[t.index + 1].category_id # None =>
                     t.category \in {snapshot[t.index + 1].category_id, None})

C11_Witness ==
    /\ ValidSelection
    /\ tasks = <<>>
    /\ Len(store.departments) < done.index + 1
    /\ done.out[1].op = "create"

Mutating == {"add", "remove", "category"}

\* the find_one_and_update of the command tasks[i] takes effect in this step
WriteStep(i) ==
    /\ tasks[i].kind \in Mutating
    /\ tasks[i].pc = "update"
    /\ Len(tasks') = Len(tasks)
    /\ tasks'[i].pc = "send"

\* what a command makes of the sequence it read
Edited(t) ==
    LET S == t.config.departments
    IN  CASE t.kind = "add" -> S \o <<[name |-> t.name, category_id |-> None]>>
          [] t.kind = "remove" -> Without(S, t.name)
          [] t.kind = "category" ->
               [k \in DOMAIN S |->
                   IF IsFirstMatch(S, t.name, k)
                   THEN [name |-> S[k].name, category_id |-> t.category]
                   ELSE S[k]]

\* C12: a command writes back the whole sequence it made from its own
\* read, with no check of what the store holds by then.  So when two adds
\* read the same record before either writes, the second write leaves the
\* read sequence plus its own entry only, the first add's entry is gone,
\* and each add still ends with its success message.
C12_LastWriteWins ==
    [][/\ \A i \in DOMAIN tasks :
             WriteStep(i) =>
                /\ store'.departments = Edited(tasks[i])
                /\ \A j \in DOMAIN tasks \ {i} :
                      (/\ tasks[i].kind = "add" /\ tasks[j].kind = "add"
                       /\ tasks[j].pc = "send"
                       /\ tasks[j].config = tasks[i].config)
                      => /\ Len(store'.departments) =
                               Len(tasks[i].config.departments) + 1
                         /\ (tasks[j].name # tasks[i].name =>
                                store'.departments # Edited(tasks[j]))
       /\ (Len(tasks') < Len(tasks) /\ done'.kind = "add" /\ ~done'.raised) =>
             done'.out[Len(done'.out)] =
                 [op |-> "send", to |-> "ctx", ephemeral |-> FALSE,
                  text |-> <<"Added department: ", done'.name>>]
      ]_vars

C12_Witness ==
    \E i, j \in DOMAIN tasks :
        /\ i # j
        /\ tasks[i].kind = "add" /\ tasks[j].kind = "add"
        /\ tasks[i].pc = "send" /\ tasks[j].pc = "send"
        /\ tasks[i].config = tasks[j].config
        /\ tasks[i].name # tasks[j].name
        /\ store.departments = Edited(tasks[i])
        /\ \A k \in DOMAIN store.departments :
              store.departments[k].name = tasks[j].name =>
                 k \in DOMAIN tasks[j].config.departments

\* C13: once cog_load has completed the config record is in the store in
\* every reachable state, whatever commands, messages and selections ran
\* and however they interleaved; removing every department leaves a record
\* with an empty sequence.
C13_RecordStays ==
    loaded => store.present

C13_Witness ==
    /\ loaded
    /\ done.kind = "remove"
    /\ done.config.departments # <<>>
    /\ store = [present |-> TRUE, hasDepartments |-> TRUE, departments |-> <<>>]

\* the handler that just returned had asked the store for the record
ReadTheStore ==
    /\ tasks = <<>>
    /\ \/ done.kind \in {"list", "add"}
       \/ done.kind = "message" /\ ~done.guild /\ ~done.bot /\ ~done.hasThread

\* C14: when the config record is missing or has no departments field the
\* handlers read the empty sequence and none of them fails: `department
\* list` replies 'No departments configured.', the direct-message handler
\* sends nothing, and `department add X` stores the one-element list [X].
C14_MissingRecordReadsEmpty ==
    (ReadTheStore /\ (~done.config.present \/ ~done.config.hasDepartments)) =>
        /\ ~done.raised
        /\ done.kind = "list" =>
              done.out = <<[op |-> "send", to |-> "ctx", ephemeral |-> FALSE,
                            text |-> <<"No departments configured.">>]>>
        /\ done.kind = "message" => done.out = <<>>
        /\ done.kind = "add" =>
              /\ Len(done.out) = 2
              /\ done.out[1] = [op |-> "write", departments |->
                                   <<[name |-> done.name, category_id |-> None]>>]

\* C15: cog_load writes only when it finds no record.  When a record
\* exists, whatever its departments (also the empty sequence, or defaults
\* removed since), cog_load issues no write and the record stays as it is:
\* a second load changes nothing and removed defaults do not come back.
C15_LoadKeepsExistingRecord ==
    (Completed("load") /\ done.config.present) =>
        /\ done.out = <<>>
        /\ store = done.config

C15_Witness ==
    /\ Completed("load")
    /\ done.config.present
    /\ store.departments # <<>>
    /\ \E k \in 1..4 :
          \A j \in DOMAIN store.departments :
              store.departments[j].name # DefaultNames[k]

\* `department list` is invoked in this step: it reads the record and
\* builds its reply
ListStarts ==
    /\ tasks = <<>>
    /\ Len(tasks') = 1
    /\ tasks'[1].kind = "list"

\* `department list` sends its reply and returns in this step
ListEnds ==
    /\ Len(tasks) = 1
    /\ tasks[1].kind = "list"
    /\ tasks' = <<>>

\* C16: on a non-empty stored sequence `department list` sends one embed
\* with one field per department in stored order, duplicates included;
\* the category text is 'Not set' for a null category_id, 'Deleted' for an
\* id that resolves to no channel of the guild, else the channel's name.
\* On an empty sequence it sends only 'No departments configured.'.
C16_ListOutput ==
    [][/\ ListStarts =>
             LET S == store.departments
                 text(d) == IF d.category_id = None THEN <<"Not set">>
                            ELSE IF d.category_id \notin channels THEN <<"Deleted">>
                            ELSE <<"channel", d.category_id>>
             IN  IF S = <<>>
                 THEN tasks'[1].pc = "send_none"
                 ELSE /\ tasks'[1].pc = "send_embed"
                      /\ tasks'[1].departments =
                            [k \in 1..Len(S) |->
                                [name |-> S[k].name,
                                 value |-> <<"Category: ">> \o text(S[k])]]
       /\ ListEnds =>
             done'.out =
                IF tasks[1].pc = "send_none"
                THEN <<[op |-> "send", to |-> "ctx", ephemeral |-> FALSE,
                        text |-> <<"No departments configured.">>]>>
                ELSE <<[op |-> "embed", to |-> "ctx", title |-> "Ticket Departments",
                        fields |-> tasks[1].departments]>>
      ]_vars

C16_Witness ==
    /\ Completed("list")
    /\ Len(done.out) = 1
    /\ done.out[1].op = "embed"
    /\ \E a, b, c \in DOMAIN done.out[1].fields :
          /\ done.out[1].fields[a].value = <<"Category: ", "Not set">>
          /\ done.out[1].fields[b].value = <<"Category: ", "Deleted">>
          /\ Len(done.out[1].fields[c].value) = 3

RequestsFor(u) == {k \in DOMAIN requests : requests[k].recipient = u}

RequestsBy(v) == {k \in DOMAIN requests : requests[k].view = v}

\* C17: whatever direct messages and selections a user makes, at most one
\* thread creation is requested for that user, also when several messages
\* were each answered with a dropdown before the first selection.  (A user
\* who starts with an open thread gets no dropdown and no request at all.)
C17_OneRequestPerUser ==
    \A u \in Users : Cardinality(RequestsFor(u)) <= 1

\* C18: one dropdown requests at most one thread, whether a second
\* selection comes after the view was stopped or while the first
\* selection's callback is still suspended before view.stop().
C18_OneRequestPerDropdown ==
    \A v \in DOMAIN views : Cardinality(RequestsBy(v)) <= 1

\* the handler tasks[i] is at its find_one_and_update, for a reason the
\* claim allows: a load that found no record, an add, a remove, or a
\* category that found its department
MayWrite(i) ==
    /\ tasks[i].pc = "update"
    /\ \/ tasks[i].kind = "load" /\ ~tasks[i].config.present
       \/ tasks[i].kind \in {"add", "remove"}
       \/ /\ tasks[i].kind = "category"
          /\ MatchCount(tasks[i].config.departments, tasks[i].name) >= 1

\* C19: the stored record changes only in a write of cog_load on a missing
\* record, of `department add`, of `department remove` or of a `department
\* category` that found its department; `department list`, the
\* direct-message handler and the selection callback (valid or denied)
\* return without having written.
C19_OnlyCommandsWrite ==
    [][/\ store' # store => \E i \in DOMAIN tasks : MayWrite(i)
       /\ (done' # done /\ done'.kind \in {"list", "message", "callback"}) =>
             /\ store' = store
             /\ \A k \in DOMAIN done'.out : done'.out[k].op # "write"
       /\ \A i \in DOMAIN tasks :
             tasks[i].kind \in {"list", "message", "callback"} => store' = store
      ]_vars

C19_Witness ==
    /\ ValidSelection
    /\ tasks = <<>>
    /\ requests # <<>>
    /\ store.departments = views[done.view].departments
    /\ store.departments[done.index + 1].category_id # None

====
